---- MODULE Spec2Model ----
(***************************************************************************)
(* Signing oracle (oracle/cmd/oracle, oracle/pkg/signingoracle), the       *)
(* contract-mirroring signature verifier (oracle/pkg/signature_verifier)   *)
(* and the delegation verifier (oracle/pkg/delegation).                    *)
(*                                                                         *)
(* A Go string and a Go []byte are both modelled as a sequence of bytes    *)
(* (naturals 0..255, ASCII codes for text), so []byte(s) and string(b)     *)
(* keep the value and "+" on strings is \o.                                *)
(*                                                                         *)
(* The go-ethereum primitives are idealised:                               *)
(*  - Keccak256 is a deterministic 32-byte digest that is collision free   *)
(*    on every byte string the model hashes (triplets, public keys and the *)
(*    EIP-191 wrapping of a digest);                                       *)
(*  - crypto.Sign is deterministic (RFC 6979) and yields 65 bytes          *)
(*    R || S || V with V in {0,1};                                         *)
(*  - crypto.Ecrecover returns the signer's public key exactly when the    *)
(*    65 bytes are the signature of that very digest, and otherwise an     *)
(*    unrelated public key or a recovery error.                            *)
(***************************************************************************)
EXTENDS Integers, Sequences, FiniteSets, TLC

(***************************************************************************)
(* Bounds of the model.                                                    *)
(***************************************************************************)
NumKeys == 2
NumReqs == 1

(***************************************************************************)
(* Byte-string helpers.                                                    *)
(***************************************************************************)
Repeat(b, n) == [i \in 1..n |-> b]

Min(S) == CHOOSE m \in S : \A x \in S : m <= x

HasPrefix(s, p) == Len(s) >= Len(p) /\ SubSeq(s, 1, Len(p)) = p

\* strings.TrimPrefix
TrimPrefix(s, p) == IF HasPrefix(s, p) THEN SubSeq(s, Len(p) + 1, Len(s)) ELSE s

\* the two ASCII bytes of "0x"
Prefix0x == <<48, 120>>

(***************************************************************************)
(* encoding/hex                                                            *)
(***************************************************************************)
\* hex.EncodeToString uses the table "0123456789abcdef"
HexTable == <<48, 49, 50, 51, 52, 53, 54, 55, 56, 57, 97, 98, 99, 100, 101, 102>>

\* (the argument is bound once, src, and encoded from there)
EncodeToString(bytes) ==
    CHOOSE dst \in {[i \in 1..(2 * Len(src)) |->
                       IF i % 2 = 1 THEN HexTable[(src[(i + 1) \div 2] \div 16) + 1]
                       ELSE HexTable[(src[i \div 2] % 16) + 1]] : src \in {bytes}} : TRUE

\* value of one hex character, 255 when it is not one (hex.reverseHexTable)
FromHexChar(c) ==
    IF c >= 48 /\ c <= 57 THEN c - 48
    ELSE IF c >= 97 /\ c <= 102 THEN c - 87
    ELSE IF c >= 65 /\ c <= 70 THEN c - 55
    ELSE 255

\* hex.DecodeString: pairs are decoded left to right and the first bad
\* character stops the decoding; the bytes decoded so far are returned with
\* the error; an odd length is ErrLength when every character is a digit
DecodeString(s) ==
    LET pairs == Len(s) \div 2
        bad == {i \in 1..Len(s) : FromHexChar(s[i]) > 15}
        good == IF bad = {} THEN pairs ELSE (Min(bad) - 1) \div 2
        bytes == [i \in 1..good |->
                    FromHexChar(s[2 * i - 1]) * 16 + FromHexChar(s[2 * i])]
    IN IF bad # {} THEN [err |-> "InvalidByteError", bytes |-> bytes]
       ELSE IF Len(s) % 2 = 1 THEN [err |-> "ErrLength", bytes |-> bytes]
       ELSE [err |-> "nil", bytes |-> bytes]

(***************************************************************************)
(* Strings of the model (ASCII).                                           *)
(***************************************************************************)
\* "5GrwvaEF5z": a validator address of exactly the minimum length
AddrV == <<53, 71, 114, 119, 118, 97, 69, 70, 53, 122>>
\* "5FHneW46xG": a nominator address of exactly the minimum length
AddrN == <<53, 70, 72, 110, 101, 87, 52, 54, 120, 71>>
\* "5FHneW46xGh": the nominator address followed by an "h"
AddrNh == AddrN \o <<104>>
\* "5FHneW46x": nine characters, one short of the minimum
AddrShort == <<53, 70, 72, 110, 101, 87, 52, 54, 120>>
EmptyStr == <<>>
\* "hi" and "i"
TextHi == <<104, 105>>
TextI == <<105>>

AddrSeq == <<EmptyStr, AddrShort, AddrV, AddrN, AddrNh>>
TextSeq == <<EmptyStr, TextHi, TextI>>
Addrs == {AddrSeq[i] : i \in 1..Len(AddrSeq)}
Texts == {TextSeq[i] : i \in 1..Len(TextSeq)}

(***************************************************************************)
(* Keys.  A private key is 32 bytes; key number k is the big-endian        *)
(* integer k.                                                              *)
(***************************************************************************)
Keys == 1..NumKeys
KeyLen == 32
PrivBytes(k) == Repeat(0, KeyLen - 1) \o <<k>>

\* X and Y coordinates of the public key of a private key (32 bytes each)
PubX(priv) == <<17>> \o SubSeq(priv, 2, KeyLen)
PubY(priv) == <<34>> \o SubSeq(priv, 2, KeyLen)

\* crypto.FromECDSAPub: 0x04 || X || Y, 65 bytes
FromECDSAPub(priv) == <<4>> \o PubX(priv) \o PubY(priv)

(***************************************************************************)
(* Keccak-256                                                              *)
(***************************************************************************)
DigestLen == 32
\* "\x19Ethereum Signed Message:\n32", 28 bytes
EthPrefix == <<25, 69, 116, 104, 101, 114, 101, 117, 109, 32, 83, 105, 103, 110,
               101, 100, 32, 77, 101, 115, 115, 97, 103, 101, 58, 10, 51, 50>>

MkDigest(tag, idx) ==
    Repeat(0, DigestLen - 3) \o <<tag, (idx \div 256) % 256, idx % 256>>

IsDigest(d) ==
    /\ Len(d) = DigestLen
    /\ SubSeq(d, 1, DigestLen - 3) = Repeat(0, DigestLen - 3)

\* the numbers of the ways to write data as address + address + text
SplitCodes(data) ==
    {(i * Len(AddrSeq) + j) * Len(TextSeq) + k :
        <<i, j, k>> \in {c \in (1..Len(AddrSeq)) \X (1..Len(AddrSeq)) \X (1..Len(TextSeq)) :
                           AddrSeq[c[1]] \o AddrSeq[c[2]] \o TextSeq[c[3]] = data}}

\* X || Y of the public key of a 32-byte private key below 256
IsPubBody(data) ==
    /\ Len(data) = 2 * KeyLen
    /\ data[1] = 17 /\ data[KeyLen + 1] = 34
    /\ SubSeq(data, 2, KeyLen - 1) = Repeat(0, KeyLen - 2)
    /\ SubSeq(data, KeyLen + 2, 2 * KeyLen) = SubSeq(data, 2, KeyLen)

\* crypto.Keccak256.  The digest is collision free on what the model hashes:
\* a tag-1 digest numbers a string address + address + text (the least
\* number of its splits, so the digest depends on the bytes only), a tag-2
\* digest numbers a public key, the digest of (EthPrefix ++ digest) keeps
\* the number and raises the tag by 100; any other input gets a tag-99 digest.
Keccak256(data) ==
    IF SplitCodes(data) # {} THEN MkDigest(1, Min(SplitCodes(data)))
    ELSE IF IsPubBody(data) THEN MkDigest(2, data[KeyLen])
    ELSE IF /\ HasPrefix(data, EthPrefix)
            /\ IsDigest(SubSeq(data, Len(EthPrefix) + 1, Len(data)))
            /\ data[Len(EthPrefix) + DigestLen - 2] < 100
         THEN MkDigest(data[Len(EthPrefix) + DigestLen - 2] + 100,
                       data[Len(EthPrefix) + DigestLen - 1] * 256
                       + data[Len(EthPrefix) + DigestLen])
         ELSE MkDigest(99, IF Len(data) < 2 THEN 0
                           ELSE data[Len(data) - 1] * 256 + data[Len(data)])

(***************************************************************************)
(* Addresses                                                               *)
(***************************************************************************)
AddressLen == 20

\* crypto.PubkeyToAddress: Keccak256(pub[1:])[12:]
PubkeyToAddress(pub) == SubSeq(Keccak256(SubSeq(pub, 2, Len(pub))), 13, DigestLen)

\* common.Address.Hex: "0x" and 40 hex characters (the EIP-55 letter case is
\* not modelled, HexToAddress ignores it)
AddressHex(addr) == Prefix0x \o EncodeToString(addr)

\* common.IsHexAddress: optional 0x, then exactly 40 hex characters
IsHexAddress(s) ==
    LET h == IF HasPrefix(s, Prefix0x) \/ HasPrefix(s, <<48, 88>>)
             THEN SubSeq(s, 3, Len(s)) ELSE s
    IN Len(h) = 2 * AddressLen /\ \A i \in 1..Len(h) : FromHexChar(h[i]) <= 15

\* common.HexToAddress on an IsHexAddress string
HexToAddress(s) ==
    DecodeString(IF HasPrefix(s, Prefix0x) \/ HasPrefix(s, <<48, 88>>)
                 THEN SubSeq(s, 3, Len(s)) ELSE s).bytes

(***************************************************************************)
(* secp256k1 signatures                                                    *)
(***************************************************************************)
SigLen == 65

\* R commits to the digest, S to the signer, V is the recovery id
SigR(hash) == <<1>> \o SubSeq(hash, 2, DigestLen)
SigS(priv) == PubX(priv)
SigV(hash, priv) == (hash[DigestLen] + priv[KeyLen]) % 2

\* crypto.Sign(hash, priv): the hash must be 32 bytes
Sign(hash, priv) ==
    IF Len(hash) # DigestLen
    THEN [err |-> "hash is required to be exactly 32 bytes", sig |-> <<>>]
    ELSE [err |-> "nil", sig |-> SigR(hash) \o SigS(priv) \o <<SigV(hash, priv)>>]

\* the private key whose signatures carry S (S is the X coordinate)
SignerOfS(s) == <<0>> \o SubSeq(s, 2, KeyLen)

\* the public key recovered from 65 bytes that are not the signature of hash
\* by any key: a point that belongs to no key of the model
UnrelatedPub(hash, sig) ==
    <<4>> \o (<<51>> \o SubSeq(sig, 2, 32))
          \o (<<68, sig[65]>> \o SubSeq(sig, 35, 61) \o SubSeq(hash, 30, 32))

\* crypto.Ecrecover(hash, sig)
Ecrecover(hash, sig) ==
    IF Len(sig) # SigLen \/ Len(hash) # DigestLen
    THEN [err |-> "invalid signature length", pub |-> <<>>]
    ELSE IF sig[SigLen] >= 4
    THEN [err |-> "invalid signature recovery id", pub |-> <<>>]
    ELSE IF SubSeq(sig, 1, 32) = Repeat(0, 32) \/ SubSeq(sig, 33, 64) = Repeat(0, 32)
    THEN [err |-> "recovery failed", pub |-> <<>>]
    ELSE IF sig = Sign(hash, SignerOfS(SubSeq(sig, 33, 64))).sig
    THEN [err |-> "nil", pub |-> FromECDSAPub(SignerOfS(SubSeq(sig, 33, 64)))]
    ELSE [err |-> "nil", pub |-> UnrelatedPub(hash, sig)]

(***************************************************************************)
(* signature_verifier: OracleVerifiedDelegation                            *)
(***************************************************************************)
NoError == [kind |-> "nil", expected |-> <<>>, got |-> <<>>]
Error(kind) == [kind |-> kind, expected |-> <<>>, got |-> <<>>]

\* createMessageHash that puts the nominator first
createMessageHash_NominatorFirst(validatorAddress, nominatorAddress, msgText) ==
    Keccak256(nominatorAddress \o validatorAddress \o msgText)

\* createMessageHash that puts a zero byte after each of the two addresses
createMessageHash_Separated(validatorAddress, nominatorAddress, msgText) ==
    Keccak256(validatorAddress \o <<0>> \o nominatorAddress \o <<0>> \o msgText)

\* createMessageHash that hashes the text and leaves the addresses out
createMessageHash_TextOnly(validatorAddress, nominatorAddress, msgText) ==
    Keccak256(msgText)

\* createMessageHash: Keccak256 of validator + nominator + text
createMessageHash(validatorAddress, nominatorAddress, msgText) ==
    Keccak256(validatorAddress \o nominatorAddress \o msgText)

\* toEthSignedMessageHash: Keccak256 of the EIP-191 prefix and the hash
toEthSignedMessageHash(messageHash) == Keccak256(EthPrefix \o messageHash)

\* recoverSigner that hands any byte string to Ecrecover
recoverSigner_NoLengthCheck(ethSignedMessageHash, signature) ==
    LET rec == Ecrecover(ethSignedMessageHash, signature) IN
    IF rec.err # "nil"
    THEN [err |-> Error("failed to recover public key"),
          address |-> Repeat(0, AddressLen), ecrecover |-> 1]
    ELSE [err |-> NoError, address |-> PubkeyToAddress(rec.pub), ecrecover |-> 1]

\* recoverSigner: the length check, Ecrecover, then the address of the key.
\* ecrecover counts the calls of crypto.Ecrecover.
recoverSigner(ethSignedMessageHash, signature) ==
    IF Len(signature) # SigLen
    THEN [err |-> Error("invalid signature length"), address |-> Repeat(0, AddressLen),
          ecrecover |-> 0]
    ELSE LET rec == Ecrecover(ethSignedMessageHash, signature) IN
         IF rec.err # "nil"
         THEN [err |-> Error("failed to recover public key"),
               address |-> Repeat(0, AddressLen), ecrecover |-> 1]
         ELSE [err |-> NoError, address |-> PubkeyToAddress(rec.pub), ecrecover |-> 1]

\* SubmitMessage that accepts whatever address is recovered
SubmitMessage_NoCompare(oracleAddress, validatorAddress, nominatorAddress, msgText, signatureHex) ==
    LET dec == DecodeString(signatureHex) IN
    IF dec.err # "nil"
    THEN [err |-> Error("invalid signature hex"), ecrecover |-> 0, compared |-> FALSE]
    ELSE IF Len(dec.bytes) # SigLen
    THEN [err |-> Error("invalid signature length"), ecrecover |-> 0, compared |-> FALSE]
    ELSE LET rec == recoverSigner(
                      toEthSignedMessageHash(
                        createMessageHash(validatorAddress, nominatorAddress, msgText)),
                      dec.bytes)
         IN IF rec.err.kind # "nil"
            THEN [err |-> Error("failed to recover signer"),
                  ecrecover |-> rec.ecrecover, compared |-> FALSE]
            ELSE [err |-> NoError, ecrecover |-> rec.ecrecover, compared |-> FALSE]

\* SubmitMessage that looks at the length of the decoded bytes before it
\* looks at the decoding error
SubmitMessage_LengthFirst(oracleAddress, validatorAddress, nominatorAddress, msgText, signatureHex) ==
    LET dec == DecodeString(signatureHex) IN
    IF Len(dec.bytes) # SigLen
    THEN [err |-> Error("invalid signature length"), ecrecover |-> 0, compared |-> FALSE]
    ELSE IF dec.err # "nil"
    THEN [err |-> Error("invalid signature hex"), ecrecover |-> 0, compared |-> FALSE]
    ELSE LET rec == recoverSigner(
                      toEthSignedMessageHash(
                        createMessageHash(validatorAddress, nominatorAddress, msgText)),
                      dec.bytes)
         IN IF rec.err.kind # "nil"
            THEN [err |-> Error("failed to recover signer"),
                  ecrecover |-> rec.ecrecover, compared |-> FALSE]
            ELSE IF rec.address # oracleAddress
            THEN [err |-> [kind |-> "signature not from oracle",
                           expected |-> AddressHex(oracleAddress),
                           got |-> AddressHex(rec.address)],
                  ecrecover |-> rec.ecrecover, compared |-> TRUE]
            ELSE [err |-> NoError, ecrecover |-> rec.ecrecover, compared |-> TRUE]

\* SubmitMessage that drops the error of recoverSigner and compares the
\* zero address it returned
SubmitMessage_RecoverErrorDropped(oracleAddress, validatorAddress, nominatorAddress, msgText, signatureHex) ==
    LET dec == DecodeString(signatureHex) IN
    IF dec.err # "nil"
    THEN [err |-> Error("invalid signature hex"), ecrecover |-> 0, compared |-> FALSE]
    ELSE IF Len(dec.bytes) # SigLen
    THEN [err |-> Error("invalid signature length"), ecrecover |-> 0, compared |-> FALSE]
    ELSE LET rec == recoverSigner(
                      toEthSignedMessageHash(
                        createMessageHash(validatorAddress, nominatorAddress, msgText)),
                      dec.bytes)
         IN IF rec.address # oracleAddress
            THEN [err |-> [kind |-> "signature not from oracle",
                           expected |-> AddressHex(oracleAddress),
                           got |-> AddressHex(rec.address)],
                  ecrecover |-> rec.ecrecover, compared |-> TRUE]
            ELSE [err |-> NoError, ecrecover |-> rec.ecrecover, compared |-> TRUE]

\* SubmitMessage on a verifier whose OracleAddress is oracleAddress.
\* ecrecover counts the calls of crypto.Ecrecover, compared tells whether
\* step 5 (the comparison with OracleAddress) was reached.
SubmitMessage(oracleAddress, validatorAddress, nominatorAddress, msgText, signatureHex) ==
    LET dec == DecodeString(signatureHex) IN
    IF dec.err # "nil"
    THEN [err |-> Error("invalid signature hex"), ecrecover |-> 0, compared |-> FALSE]
    ELSE IF Len(dec.bytes) # SigLen
    THEN [err |-> Error("invalid signature length"), ecrecover |-> 0, compared |-> FALSE]
    ELSE LET messageHash == createMessageHash(validatorAddress, nominatorAddress, msgText)
             ethSignedMessageHash == toEthSignedMessageHash(messageHash)
             rec == recoverSigner(ethSignedMessageHash, dec.bytes)
         IN IF rec.err.kind # "nil"
            THEN [err |-> Error("failed to recover signer"),
                  ecrecover |-> rec.ecrecover, compared |-> FALSE]
            ELSE IF rec.address # oracleAddress
            THEN [err |-> [kind |-> "signature not from oracle",
                           expected |-> AddressHex(oracleAddress),
                           got |-> AddressHex(rec.address)],
                  ecrecover |-> rec.ecrecover, compared |-> TRUE]
            ELSE [err |-> NoError, ecrecover |-> rec.ecrecover, compared |-> TRUE]

\* NewOracleVerifiedDelegation: the OracleAddress of the verifier built from
\* an address string (ok is FALSE when the string is no hex address)
NewOracleVerifiedDelegation(oracleAddressHex) ==
    IF ~IsHexAddress(oracleAddressHex)
    THEN [ok |-> FALSE, OracleAddress |-> Repeat(0, AddressLen)]
    ELSE [ok |-> TRUE, OracleAddress |-> HexToAddress(oracleAddressHex)]

(***************************************************************************)
(* signingoracle: SigningOracle, identified by its private key             *)
(***************************************************************************)
\* the order N of the secp256k1 group, big endian
Secp256k1N ==
    <<255, 255, 255, 255, 255, 255, 255, 255, 255, 255, 255, 255, 255, 255, 255, 254,
      186, 174, 220, 230, 175, 72, 160, 59, 191, 210, 94, 140, 208, 54, 65, 65>>

\* a < b for big-endian byte strings of the same length
Less(a, b) ==
    \E i \in 1..Len(a) : a[i] < b[i] /\ \A j \in 1..(i - 1) : a[j] = b[j]

\* crypto.ToECDSA: exactly 32 bytes, below N, not zero
ToECDSA(d) ==
    IF Len(d) # KeyLen THEN [err |-> "invalid length, need 256 bits", priv |-> <<>>]
    ELSE IF ~Less(d, Secp256k1N) THEN [err |-> "invalid private key, >=N", priv |-> <<>>]
    ELSE IF d = Repeat(0, KeyLen)
    THEN [err |-> "invalid private key, zero or negative", priv |-> <<>>]
    ELSE [err |-> "nil", priv |-> d]

\* the nil *SigningOracle
NilOracle == <<>>

\* NewSigningOracle that does not strip the "0x"
NewSigningOracle_NoTrim(privateKeyEnv) ==
    IF privateKeyEnv = EmptyStr
    THEN [err |-> "PRIVATE_KEY environment variable is required", oracle |-> NilOracle]
    ELSE LET dec == DecodeString(privateKeyEnv) IN
         IF dec.err # "nil"
         THEN [err |-> "failed to decode private key", oracle |-> NilOracle]
         ELSE LET key == ToECDSA(dec.bytes) IN
              IF key.err # "nil"
              THEN [err |-> "failed to create private key", oracle |-> NilOracle]
              ELSE [err |-> "nil", oracle |-> key.priv]

\* NewSigningOracle on the value of PRIVATE_KEY ("" when it is unset)
NewSigningOracle(privateKeyEnv) ==
    IF privateKeyEnv = EmptyStr
    THEN [err |-> "PRIVATE_KEY environment variable is required", oracle |-> NilOracle]
    ELSE LET dec == DecodeString(TrimPrefix(privateKeyEnv, Prefix0x)) IN
         IF dec.err # "nil"
         THEN [err |-> "failed to decode private key", oracle |-> NilOracle]
         ELSE LET key == ToECDSA(dec.bytes) IN
              IF key.err # "nil"
              THEN [err |-> "failed to create private key", oracle |-> NilOracle]
              ELSE [err |-> "nil", oracle |-> key.priv]

\* GetPrivateKeyHex: hex of the 32 key bytes
GetPrivateKeyHex(priv) == EncodeToString(priv)

\* GetPublicKeyHex: hex of 0x04 || X || Y, no 0x prefix
GetPublicKeyHex(priv) == EncodeToString(FromECDSAPub(priv))

\* GetAddress: the address of the public key as a 0x hex string
GetAddress(priv) == AddressHex(PubkeyToAddress(FromECDSAPub(priv)))

\* SignMessage that signs the EIP-191 hash of Keccak256(msg)
SignMessageHash_Eip191(msg) == Keccak256(EthPrefix \o Keccak256(msg))

\* the digest SignMessage signs: Keccak256 of msg alone
SignMessageHash(msg) == Keccak256(msg)

\* SignMessage: hex of the signature of Keccak256(msg)
SignMessage(priv, msg) ==
    LET s == Sign(SignMessageHash(msg), priv) IN
    IF s.err # "nil" THEN [err |-> "failed to sign message", sig |-> <<>>]
    ELSE [err |-> "nil", sig |-> EncodeToString(s.sig)]

\* SignEthereumMessage that forgets the EIP-191 prefix
SignEthereumMessageHash_NoPrefix(msg) == Keccak256(msg)

\* the digest SignEthereumMessage signs: the EIP-191 hash of Keccak256(msg)
SignEthereumMessageHash(msg) == Keccak256(EthPrefix \o Keccak256(msg))

\* SignEthereumMessage: hex of the signature of the EIP-191 hash
SignEthereumMessage(priv, msg) ==
    LET s == Sign(SignEthereumMessageHash(msg), priv) IN
    IF s.err # "nil" THEN [err |-> "failed to sign Ethereum message", sig |-> <<>>]
    ELSE [err |-> "nil", sig |-> EncodeToString(s.sig)]

\* SignTriplet that packs the nominator before the validator
SignTripletHash_NominatorFirst(validator, nominator, msgText) ==
    Keccak256(EthPrefix \o Keccak256(nominator \o validator \o msgText))

\* the digest SignTriplet signs
SignTripletHash(validator, nominator, msgText) ==
    Keccak256(EthPrefix \o Keccak256(validator \o nominator \o msgText))

\* SignTriplet: the 65 signature bytes (not hex encoded)
SignTriplet(priv, validator, nominator, msgText) ==
    Sign(SignTripletHash(validator, nominator, msgText), priv)

(***************************************************************************)
(* delegation: Verifier.  A Go error is the chain of its wrapped messages, *)
(* outermost first; nil is the empty chain.                                *)
(***************************************************************************)
Nil == <<>>
Wrap(msg, err) == <<msg>> \o err

\* what the chain endpoint can do with one POST: the transport fails, the
\* body cannot be read, or a response with a status and a body arrives; the
\* body is a JSON-RPC envelope (with or without an error field, with a
\* result that may be null) or is not one
RPCReplies ==
    { [name |-> "transport_failure", transport |-> "fail", status |-> 0,
       envelope |-> FALSE, error |-> FALSE, result |-> "null"],
      [name |-> "read_failure", transport |-> "readfail", status |-> 200,
       envelope |-> FALSE, error |-> FALSE, result |-> "null"],
      [name |-> "malformed_body", transport |-> "ok", status |-> 200,
       envelope |-> FALSE, error |-> FALSE, result |-> "null"],
      [name |-> "rpc_error", transport |-> "ok", status |-> 200,
       envelope |-> TRUE, error |-> TRUE, result |-> "null"],
      [name |-> "http_500_envelope", transport |-> "ok", status |-> 500,
       envelope |-> TRUE, error |-> FALSE, result |-> "null"],
      [name |-> "era_null", transport |-> "ok", status |-> 200,
       envelope |-> TRUE, error |-> FALSE, result |-> "null"],
      [name |-> "era_value", transport |-> "ok", status |-> 200,
       envelope |-> TRUE, error |-> FALSE, result |-> "0x6c070000" ] }

\* makeRPCCall: Post, ReadAll, Unmarshal, the error field; the HTTP status
\* is not looked at
makeRPCCall(reply) ==
    IF reply.transport = "fail"
    THEN [result |-> "nil", err |-> <<"failed to make RPC call">>]
    ELSE IF reply.transport = "readfail"
    THEN [result |-> "nil", err |-> <<"failed to read response body">>]
    ELSE IF ~reply.envelope
    THEN [result |-> "nil", err |-> <<"failed to unmarshal response">>]
    ELSE IF reply.error
    THEN [result |-> "nil", err |-> <<"RPC error">>]
    ELSE [result |-> reply.result, err |-> Nil]

\* getActiveEra that takes a null result for a failure
getActiveEra_NullIsError(reply) ==
    LET r == makeRPCCall(reply) IN
    IF r.err # Nil THEN [result |-> "nil", err |-> Wrap("failed to get active era", r.err)]
    ELSE IF r.result = "null" THEN [result |-> "nil", err |-> <<"no active era">>]
    ELSE [result |-> r.result, err |-> Nil]

\* getActiveEra: one state_getStorage call
getActiveEra(reply) ==
    LET r == makeRPCCall(reply) IN
    IF r.err # Nil THEN [result |-> "nil", err |-> Wrap("failed to get active era", r.err)]
    ELSE [result |-> r.result, err |-> Nil]

MinAddressLen == 10

\* checkIfNominated that refuses only when both addresses are short
checkIfNominated_BothShort(nominatorAddress, validatorAddress) ==
    IF Len(nominatorAddress) < MinAddressLen /\ Len(validatorAddress) < MinAddressLen
    THEN [ok |-> FALSE, err |-> <<"invalid address format">>]
    ELSE [ok |-> TRUE, err |-> Nil]

\* checkIfNominated that answers "not nominated" for a short address
checkIfNominated_ShortIsNotNominated(nominatorAddress, validatorAddress) ==
    IF Len(nominatorAddress) < MinAddressLen \/ Len(validatorAddress) < MinAddressLen
    THEN [ok |-> FALSE, err |-> Nil]
    ELSE [ok |-> TRUE, err |-> Nil]

\* checkIfNominated: the address length check, then always true
checkIfNominated(nominatorAddress, validatorAddress) ==
    IF Len(nominatorAddress) < MinAddressLen \/ Len(validatorAddress) < MinAddressLen
    THEN [ok |-> FALSE, err |-> <<"invalid address format">>]
    ELSE [ok |-> TRUE, err |-> Nil]

\* checkIfActive: a second getActiveEra call, then always true
checkIfActive(reply) ==
    LET era == getActiveEra(reply) IN
    IF era.err # Nil THEN [ok |-> FALSE, err |-> Wrap("failed to get active era", era.err)]
    ELSE [ok |-> TRUE, err |-> Nil]

\* VerifyDelegation that logs a failed getActiveEra and goes on
VerifyDelegationEra_IgnoreEraError(nominatorAddress, validatorAddress, reply) ==
    LET nom == checkIfNominated(nominatorAddress, validatorAddress) IN
    IF nom.err # Nil
    THEN [done |-> TRUE, ok |-> FALSE, err |-> Wrap("failed to check nomination", nom.err)]
    ELSE IF ~nom.ok
    THEN [done |-> TRUE, ok |-> FALSE, err |-> Nil]
    ELSE [done |-> FALSE, ok |-> FALSE, err |-> Nil]

\* VerifyDelegation from the return of its own getActiveEra call up to
\* the call of checkIfActive: done tells that it returned (ok, err), and
\* otherwise checkIfActive is called next.
VerifyDelegationEra(nominatorAddress, validatorAddress, reply) ==
    LET era == getActiveEra(reply) IN
    IF era.err # Nil
    THEN [done |-> TRUE, ok |-> FALSE, err |-> Wrap("failed to get active era", era.err)]
    ELSE LET nom == checkIfNominated(nominatorAddress, validatorAddress) IN
         IF nom.err # Nil
         THEN [done |-> TRUE, ok |-> FALSE, err |-> Wrap("failed to check nomination", nom.err)]
         ELSE IF ~nom.ok
         THEN [done |-> TRUE, ok |-> FALSE, err |-> Nil]
         ELSE [done |-> FALSE, ok |-> FALSE, err |-> Nil]

\* VerifyDelegation that reports a failed checkIfActive as "not delegated"
VerifyDelegationActive_ErrorAsFalse(reply) ==
    LET act == checkIfActive(reply) IN
    IF act.err # Nil
    THEN [done |-> TRUE, ok |-> FALSE, err |-> Nil]
    ELSE [done |-> TRUE, ok |-> TRUE, err |-> Nil]

\* VerifyDelegation from the return of checkIfActive to its own return
VerifyDelegationActive(reply) ==
    LET act == checkIfActive(reply) IN
    IF act.err # Nil
    THEN [done |-> TRUE, ok |-> FALSE,
          err |-> Wrap("failed to check if nomination is active", act.err)]
    ELSE [done |-> TRUE, ok |-> TRUE, err |-> Nil]

(***************************************************************************)
(* State.                                                                  *)
(*  vsig, vsub, vrec : a signature under test, the last SubmitMessage call *)
(*                     on it and the last recoverSigner call on it (the    *)
(*                     flows of the signature_verifier tests).             *)
(*  oracle : the SigningOracle built at start-up (its private key).        *)
(*  build  : which of the two cmd/oracle programs of the repository runs.   *)
(*  proc   : the process: where main is, the PRIVATE_KEY value it was       *)
(*           started with, the routes registered, the identity logged at   *)
(*           start-up, the /info responses written and the paths served.   *)
(*  req    : per request slot, the request, the handler's position, what   *)
(*           VerifyDelegation did for it and the response written.         *)
(***************************************************************************)
VARIABLES vsig, vsub, vrec, oracle, build, proc, req

vvars == <<vsig, vsub, vrec>>
hvars == <<oracle, build, proc, req>>
vars == <<vsig, vsub, vrec, oracle, build, proc, req>>

\* the triplets signed and submitted; the first two have the same
\* concatenation validator + nominator + text
VTriplets ==
    { <<AddrV, AddrN, TextHi>>, <<AddrV, AddrNh, TextI>>, <<AddrN, AddrV, TextHi>>,
      <<AddrV, AddrN, EmptyStr>>, <<EmptyStr, EmptyStr, EmptyStr>> }

Concat(tr) == tr[1] \o tr[2] \o tr[3]

NoSig == [hex |-> <<>>, key |-> 0, triplet |-> <<>>, method |-> "none", tamper |-> "none"]
NoSub == [called |-> FALSE, key |-> 0, triplet |-> <<>>, messageHash |-> <<>>,
          res |-> [err |-> NoError, ecrecover |-> 0, compared |-> FALSE]]
NoRec == [called |-> FALSE, triplet |-> <<>>, messageHash |-> <<>>,
          res |-> [err |-> NoError, address |-> <<>>, ecrecover |-> 0]]

VSigInit == vsig = NoSig /\ vsub = NoSub /\ vrec = NoRec

(***************************************************************************)
(* cmd/oracle: the /verify handler                                         *)
(***************************************************************************)
Reqs == 1..NumReqs

NoFields == [k \in {} |-> <<>>]
BadJSON == [json |-> FALSE, fields |-> NoFields]
Body(v, n, m) ==
    [json |-> TRUE,
     fields |-> [k \in {"validator_address", "nominator_address", "msg"} |->
                   CASE k = "validator_address" -> v
                     [] k = "nominator_address" -> n
                     [] k = "msg" -> m]]
\* a JSON object that lacks the key k
BodyWithout(k) ==
    [json |-> TRUE,
     fields |-> [j \in {"validator_address", "nominator_address", "msg"} \ {k} |->
                   CASE j = "validator_address" -> AddrV
                     [] j = "nominator_address" -> AddrN
                     [] j = "msg" -> TextHi]]

\* the request bodies the model sends
Bodies ==
    { BadJSON,
      Body(AddrV, AddrN, TextHi), Body(AddrN, AddrV, TextHi), Body(AddrV, AddrNh, TextI),
      Body(AddrV, AddrShort, TextHi), Body(AddrShort, AddrN, TextHi),
      Body(EmptyStr, AddrN, TextHi), Body(AddrV, EmptyStr, TextHi),
      Body(AddrV, AddrN, EmptyStr),
      BodyWithout("validator_address"), BodyWithout("nominator_address"),
      BodyWithout("msg") }

\* the (nominator, validator) pairs of the direct VerifyDelegation calls
DirectCalls ==
    { <<AddrN, AddrV>>, <<EmptyStr, EmptyStr>>, <<AddrShort, AddrV>>, <<AddrN, EmptyStr>> }

\* json.Decode into Request: a key that is absent leaves the field ""
Field(body, k) == IF k \in DOMAIN body.fields THEN body.fields[k] ELSE EmptyStr
DecodeRequest(body) ==
    [ok |-> body.json,
     ValidatorAddress |-> Field(body, "validator_address"),
     NominatorAddress |-> Field(body, "nominator_address"),
     Msg |-> Field(body, "msg")]

NoResp ==
    [status |-> 0, error |-> "", text |-> "", validator_address |-> <<>>,
     nominator_address |-> <<>>, msg |-> <<>>, signature |-> <<>>, allowOrigin |-> ""]

\* http.Error(w, text, status) after the CORS headers were set
TextResp(status, text) == [NoResp EXCEPT !.status = status, !.text = text, !.allowOrigin = "*"]

\* an ErrorResponse written with the given status
ErrorResp(status, error) ==
    [NoResp EXCEPT !.status = status, !.error = error, !.allowOrigin = "*"]

\* the nil *VerificationResult
NoResult ==
    [nil |-> TRUE, IsValid |-> FALSE, AddressValidation |-> FALSE,
     ExtrinsicValidation |-> FALSE, StorageValidation |-> FALSE,
     ActiveEraValidation |-> FALSE, NominatorAddress |-> <<>>,
     ValidatorAddress |-> <<>>]

\* VerifyV2 that takes the skipped extrinsic stage into IsValid
VerifyV2_ExtrinsicInIsValid(nominatorAddress, validatorAddress) ==
    LET addressValidation ==
            Len(nominatorAddress) >= MinAddressLen /\ Len(validatorAddress) >= MinAddressLen
    IN [nil |-> FALSE,
        IsValid |-> FALSE,
        AddressValidation |-> addressValidation,
        ExtrinsicValidation |-> FALSE,
        StorageValidation |-> addressValidation,
        ActiveEraValidation |-> addressValidation,
        NominatorAddress |-> nominatorAddress,
        ValidatorAddress |-> validatorAddress]

\* VerifyV2: the stages set their flags one by one: the address stage is
\* the format check, the storage and active-era stages run once the
\* addresses passed and pass without a query, the extrinsic stage is
\* skipped, and IsValid is the conjunction of the three stages that ran
VerifyV2(nominatorAddress, validatorAddress) ==
    LET addressValidation ==
            Len(nominatorAddress) >= MinAddressLen /\ Len(validatorAddress) >= MinAddressLen
        storageValidation == addressValidation
        activeEraValidation == addressValidation
    IN [nil |-> FALSE,
        IsValid |-> addressValidation /\ storageValidation /\ activeEraValidation,
        AddressValidation |-> addressValidation,
        ExtrinsicValidation |-> FALSE,
        StorageValidation |-> storageValidation,
        ActiveEraValidation |-> activeEraValidation,
        NominatorAddress |-> nominatorAddress,
        ValidatorAddress |-> validatorAddress]

\* the (nominator, validator) pairs of the VerifyV2 calls
V2Calls == DirectCalls \cup { <<AddrV, AddrV>>, <<AddrNh, AddrV>> }

IdleReq ==
    [pc |-> "Idle", via |-> "none", method |-> "", body |-> BadJSON,
     nominator |-> <<>>, validator |-> <<>>,
     vpc |-> "none", vok |-> FALSE, verr |-> Nil, rpcLog |-> <<>>,
     signCalls |-> 0, signedHash |-> <<>>, resp |-> NoResp, v2 |-> NoResult]

\* VerifyHandler without the check of the required fields
VerifyHandlerChecks_NoFieldCheck(method, body) ==
    LET r == DecodeRequest(body) IN
    IF method = "OPTIONS" THEN [verify |-> FALSE, resp |-> TextResp(200, "")]
    ELSE IF method # "POST"
    THEN [verify |-> FALSE, resp |-> TextResp(405, "Method not allowed")]
    ELSE IF ~r.ok
    THEN [verify |-> FALSE, resp |-> TextResp(400, "Invalid request body")]
    ELSE [verify |-> TRUE, resp |-> NoResp]

\* VerifyHandler that decodes the body before it looks at the method
VerifyHandlerChecks_DecodeFirst(method, body) ==
    LET r == DecodeRequest(body) IN
    IF ~r.ok
    THEN [verify |-> FALSE, resp |-> TextResp(400, "Invalid request body")]
    ELSE IF method = "OPTIONS" THEN [verify |-> FALSE, resp |-> TextResp(200, "")]
    ELSE IF method # "POST"
    THEN [verify |-> FALSE, resp |-> TextResp(405, "Method not allowed")]
    ELSE IF r.ValidatorAddress = EmptyStr \/ r.NominatorAddress = EmptyStr \/ r.Msg = EmptyStr
    THEN [verify |-> FALSE, resp |-> TextResp(400, "Missing required fields")]
    ELSE [verify |-> TRUE, resp |-> NoResp]

\* the first part of VerifyHandler: CORS headers, method, body, required
\* fields.  "verify" tells that VerifyDelegation is called next.
VerifyHandlerChecks(method, body) ==
    LET r == DecodeRequest(body) IN
    IF method = "OPTIONS" THEN [verify |-> FALSE, resp |-> TextResp(200, "")]
    ELSE IF method # "POST"
    THEN [verify |-> FALSE, resp |-> TextResp(405, "Method not allowed")]
    ELSE IF ~r.ok
    THEN [verify |-> FALSE, resp |-> TextResp(400, "Invalid request body")]
    ELSE IF r.ValidatorAddress = EmptyStr \/ r.NominatorAddress = EmptyStr \/ r.Msg = EmptyStr
    THEN [verify |-> FALSE, resp |-> TextResp(400, "Missing required fields")]
    ELSE [verify |-> TRUE, resp |-> NoResp]

\* VerifyHandler that logs the error of VerifyDelegation and goes on
VerifyHandlerBranch_NoReturnOnError(isDelegated, err) ==
    IF err = Nil /\ ~isDelegated
    THEN [pc |-> "Rejected", resp |-> ErrorResp(400, "delegation_not_found")]
    ELSE [pc |-> "Signing", resp |-> NoResp]

\* VerifyHandler that reports an error of VerifyDelegation as a missing
\* delegation
VerifyHandlerBranch_ErrorAsNotFound(isDelegated, err) ==
    IF err # Nil \/ ~isDelegated
    THEN [pc |-> "Rejected", resp |-> ErrorResp(400, "delegation_not_found")]
    ELSE [pc |-> "Signing", resp |-> NoResp]

\* the branch of VerifyHandler on the result of VerifyDelegation
VerifyHandlerBranch(isDelegated, err) ==
    IF err # Nil THEN [pc |-> "Rejected", resp |-> ErrorResp(500, "verification_failed")]
    ELSE IF ~isDelegated
    THEN [pc |-> "Rejected", resp |-> ErrorResp(400, "delegation_not_found")]
    ELSE [pc |-> "Signing", resp |-> NoResp]

\* the last part of VerifyHandler: SignMessage(req.Msg) and the response
VerifyHandlerSigned(priv, request) ==
    LET signed == SignMessage(priv, request.Msg) IN
    IF signed.err # "nil" THEN TextResp(500, "Internal server error")
    ELSE [NoResp EXCEPT !.status = 200,
                        !.validator_address = request.ValidatorAddress,
                        !.nominator_address = request.NominatorAddress,
                        !.msg = request.Msg,
                        !.signature = Prefix0x \o signed.sig,
                        !.allowOrigin = "*"]

\* the two main packages of the repository: the one whose handlers are
\* functions over the signingoracle package, and the one that defines
\* SigningOracle and its handler methods itself
Builds == {"signingoracle", "standalone"}

\* the last part of SigningOracle.VerifyHandler of the standalone program:
\* SignMessage(req.Msg) and the response, the signature as SignMessage
\* returned it
SigningOracle_VerifyHandlerSigned(priv, request) ==
    LET signed == SignMessage(priv, request.Msg) IN
    IF signed.err # "nil" THEN TextResp(500, "Internal server error")
    ELSE [NoResp EXCEPT !.status = 200,
                        !.validator_address = request.ValidatorAddress,
                        !.nominator_address = request.NominatorAddress,
                        !.msg = request.Msg,
                        !.signature = signed.sig,
                        !.allowOrigin = "*"]

\* InfoHandler that publishes the private key as the public key
InfoHandler_PrivateKey(priv) ==
    [status |-> 200, public_key |-> GetPrivateKeyHex(priv), address |-> GetAddress(priv),
     ready |-> "ready"]

\* InfoHandler: the body of the 200 response of GET /info
InfoHandler(priv) ==
    [status |-> 200, public_key |-> GetPublicKeyHex(priv), address |-> GetAddress(priv),
     ready |-> "ready"]

Routes == {"/verify", "/info", "/health"}

NoIdentity == [priv |-> <<>>, public_key |-> <<>>, address |-> <<>>]

\* the process before main has run, started with PRIVATE_KEY = env
StartProc(env) ==
    [pc |-> "start", env |-> env, routes |-> {}, startup |-> NoIdentity,
     info |-> {}, served |-> {}]

\* the process once main is in http.ListenAndServe with the oracle of priv
ServingProc(priv) ==
    [pc |-> "serving", env |-> GetPrivateKeyHex(priv), routes |-> Routes,
     startup |-> [priv |-> priv, public_key |-> GetPublicKeyHex(priv),
                  address |-> GetAddress(priv)],
     info |-> {}, served |-> {}]

HInit ==
    /\ oracle \in {PrivBytes(k) : k \in Keys}
    /\ build \in Builds
    /\ proc = ServingProc(oracle)
    /\ req = [r \in Reqs |-> IdleReq]

\* a request arrives at /verify
Arrive(r, method, body) ==
    /\ proc.pc = "serving" /\ "/verify" \in proc.routes
    /\ req[r].pc = "Idle"
    /\ req' = [req EXCEPT ![r] = [@ EXCEPT !.pc = "Received", !.via = "http",
                                           !.method = method, !.body = body]]
    /\ UNCHANGED <<oracle, build, proc, vvars>>

\* VerifyHandler that verifies one request at a time: it waits while the
\* delegation check of another request is running
VerifyHandlerBegin_OneAtATime(r) ==
    /\ req[r].pc = "Received"
    /\ \A o \in DOMAIN req : req[o].pc # "ValidatingDelegation"
    /\ LET c == VerifyHandlerChecks(req[r].method, req[r].body)
           d == DecodeRequest(req[r].body)
       IN IF c.verify
          THEN req' = [req EXCEPT ![r] = [@ EXCEPT !.pc = "ValidatingDelegation",
                                                   !.nominator = d.NominatorAddress,
                                                   !.validator = d.ValidatorAddress,
                                                   !.vpc = "era1"]]
          ELSE req' = [req EXCEPT ![r] = [@ EXCEPT !.pc = "Responded", !.resp = c.resp]]
    /\ UNCHANGED <<oracle, build, proc, vvars>>

\* VerifyHandler up to the first RPC call of VerifyDelegation (getActiveEra
\* has posted its request), or to the response when a check fails
VerifyHandlerBegin(r) ==
    /\ req[r].pc = "Received"
    /\ LET c == VerifyHandlerChecks(req[r].method, req[r].body)
           d == DecodeRequest(req[r].body)
       IN IF c.verify
          THEN req' = [req EXCEPT ![r] = [@ EXCEPT !.pc = "ValidatingDelegation",
                                                   !.nominator = d.NominatorAddress,
                                                   !.validator = d.ValidatorAddress,
                                                   !.vpc = "era1"]]
          ELSE req' = [req EXCEPT ![r] = [@ EXCEPT !.pc = "Responded", !.resp = c.resp]]
    /\ UNCHANGED <<oracle, build, proc, vvars>>

\* a caller other than the handler (the package tests, the README example)
\* calls verifier.VerifyDelegation(nominator, validator)
CallVerifyDelegation(r, nominator, validator) ==
    /\ req[r].pc = "Idle"
    /\ req' = [req EXCEPT ![r] = [@ EXCEPT !.pc = "Calling", !.via = "direct",
                                           !.nominator = nominator,
                                           !.validator = validator, !.vpc = "era1"]]
    /\ UNCHANGED <<oracle, build, proc, vvars>>

\* a caller (the package tests) calls verifier.VerifyV2(nominator, validator)
CallVerifyV2(r, nominator, validator) ==
    /\ req[r].pc = "Idle"
    /\ req' = [req EXCEPT ![r] = [@ EXCEPT !.pc = "Returned", !.via = "v2",
                                           !.nominator = nominator,
                                           !.validator = validator,
                                           !.v2 = VerifyV2(nominator, validator)]]
    /\ UNCHANGED <<oracle, build, proc, vvars>>

\* where the caller of VerifyDelegation continues once it has returned
AfterVerifyDelegation(q, ok, err) ==
    IF q.via = "http"
    THEN [q EXCEPT !.vpc = "done", !.vok = ok, !.verr = err,
                   !.pc = VerifyHandlerBranch(ok, err).pc]
    ELSE [q EXCEPT !.vpc = "done", !.vok = ok, !.verr = err, !.pc = "Returned"]

\* the endpoint answers the pending RPC call of request r
RPCReturn(r, reply) ==
    /\ req[r].vpc \in {"era1", "era2"}
    /\ LET q == [req[r] EXCEPT !.rpcLog = Append(@, reply.name)]
           res == IF req[r].vpc = "era1"
                  THEN VerifyDelegationEra(q.nominator, q.validator, reply)
                  ELSE VerifyDelegationActive(reply)
       IN req' = [req EXCEPT ![r] = IF res.done
                                    THEN AfterVerifyDelegation(q, res.ok, res.err)
                                    ELSE [q EXCEPT !.vpc = "era2"]]
    /\ UNCHANGED <<oracle, build, proc, vvars>>

\* VerifyHandler with a deadline on the delegation check: it also answers
\* while the RPC call of the request is still pending
VerifyHandlerReject_Deadline(r) ==
    /\ req[r].pc \in {"Rejected", "ValidatingDelegation"}
    /\ req' = [req EXCEPT ![r] = [@ EXCEPT !.pc = "Responded",
                                           !.resp = ErrorResp(500, "verification_failed")]]
    /\ UNCHANGED <<oracle, build, proc, vvars>>

\* VerifyHandler writes the error response of a refused request
VerifyHandlerReject(r) ==
    /\ req[r].pc = "Rejected"
    /\ req' = [req EXCEPT ![r] = [@ EXCEPT !.pc = "Responded",
                                           !.resp = VerifyHandlerBranch(req[r].vok, req[r].verr).resp]]
    /\ UNCHANGED <<oracle, build, proc, vvars>>

\* VerifyHandler signs and writes the response
VerifyHandlerSign(r) ==
    /\ req[r].pc = "Signing"
    /\ req' = [req EXCEPT ![r] = [@ EXCEPT !.pc = "Responded",
                                           !.signCalls = @ + 1,
                                           !.signedHash = SignMessageHash(
                                                            DecodeRequest(req[r].body).Msg),
                                           !.resp =
                                               IF build = "signingoracle"
                                               THEN VerifyHandlerSigned(
                                                      oracle, DecodeRequest(req[r].body))
                                               ELSE SigningOracle_VerifyHandlerSigned(
                                                      oracle, DecodeRequest(req[r].body))]]
    /\ UNCHANGED <<oracle, build, proc, vvars>>

Next ==
    \/ \E r \in Reqs, method \in {"POST", "OPTIONS", "GET"}, body \in Bodies :
          Arrive(r, method, body)
    \/ \E r \in Reqs : VerifyHandlerBegin(r)
    \/ \E r \in Reqs, c \in DirectCalls : CallVerifyDelegation(r, c[1], c[2])
    \/ \E r \in Reqs, c \in V2Calls : CallVerifyV2(r, c[1], c[2])
    \/ \E r \in Reqs, reply \in RPCReplies : RPCReturn(r, reply)
    \/ \E r \in Reqs : VerifyHandlerReject(r)
    \/ \E r \in Reqs : VerifyHandlerSign(r)

Init == HInit /\ VSigInit

Spec == Init /\ [][Next]_vars

\* the signature flows run against the oracle of key 1, no request in flight
VInit ==
    /\ VSigInit /\ oracle = PrivBytes(1) /\ build = "signingoracle"
    /\ proc = ServingProc(oracle)
    /\ req = [r \in Reqs |-> IdleReq]


\* oracle.SignEthereumMessage(validator + nominator + text)
VSignEthereumMessage(k, tr) ==
    /\ vsig = NoSig
    /\ vsig' = [hex |-> SignEthereumMessage(PrivBytes(k), Concat(tr)).sig, key |-> k,
                triplet |-> tr, method |-> "SignEthereumMessage", tamper |-> "none"]
    /\ vsub' = NoSub /\ vrec' = NoRec
    /\ UNCHANGED hvars

\* hex.EncodeToString(oracle.SignTriplet(validator, nominator, text))
VSignTriplet(k, tr) ==
    /\ vsig = NoSig
    /\ vsig' = [hex |-> EncodeToString(SignTriplet(PrivBytes(k), tr[1], tr[2], tr[3]).sig),
                key |-> k, triplet |-> tr, method |-> "SignTriplet", tamper |-> "none"]
    /\ vsub' = NoSub /\ vrec' = NoRec
    /\ UNCHANGED hvars

\* oracle.SignMessage(text), the call of the /verify handler
VSignMessage(k, tr) ==
    /\ vsig = NoSig
    /\ vsig' = [hex |-> SignMessage(PrivBytes(k), tr[3]).sig, key |-> k,
                triplet |-> tr, method |-> "SignMessage", tamper |-> "none"]
    /\ vsub' = NoSub /\ vrec' = NoRec
    /\ UNCHANGED hvars

TamperKinds ==
    { "dropbyte", "addbyte", "dropchar", "addchar", "nonhex", "nonhexshort",
      "prefix0x", "flipR", "flipS", "badV", "zeroR", "empty", "onechar" }

\* the signature string after it was damaged on the way to the verifier
Tampered(hex, kind) ==
    LET n == Len(hex) IN
    CASE kind = "dropbyte" -> SubSeq(hex, 1, n - 2)
      [] kind = "addbyte" -> hex \o <<48, 48>>
      [] kind = "dropchar" -> SubSeq(hex, 1, n - 1)
      [] kind = "addchar" -> hex \o <<48>>
      [] kind = "nonhex" -> [hex EXCEPT ![5] = 103]
      [] kind = "nonhexshort" -> [SubSeq(hex, 1, n - 2) EXCEPT ![5] = 103]
      [] kind = "prefix0x" -> Prefix0x \o hex
      [] kind = "flipR" -> [hex EXCEPT ![64] = IF @ = 48 THEN 49 ELSE 48]
      [] kind = "flipS" -> [hex EXCEPT ![128] = IF @ = 48 THEN 49 ELSE 48]
      [] kind = "badV" -> [hex EXCEPT ![129] = 49, ![130] = 98]
      [] kind = "zeroR" -> Repeat(48, 64) \o SubSeq(hex, 65, n)
      [] kind = "empty" -> <<>>
      [] kind = "onechar" -> <<97>>

VTamper(kind) ==
    /\ vsig.method # "none" /\ vsig.tamper = "none" /\ ~vsub.called /\ ~vrec.called
    /\ vsig' = [vsig EXCEPT !.hex = Tampered(vsig.hex, kind), !.tamper = kind]
    /\ vsub' = NoSub /\ vrec' = NoRec
    /\ UNCHANGED hvars

\* verifier := NewOracleVerifiedDelegation(oracle k's GetAddress());
\* verifier.SubmitMessage(validator, nominator, text, signatureHex)
VSubmit(k, tr) ==
    /\ vsig.method # "none" /\ ~vsub.called /\ ~vrec.called
    /\ LET verifier == NewOracleVerifiedDelegation(GetAddress(PrivBytes(k))) IN
       /\ verifier.ok
       /\ vsub' = [called |-> TRUE, key |-> k, triplet |-> tr,
                   messageHash |-> createMessageHash(tr[1], tr[2], tr[3]),
                   res |-> SubmitMessage(verifier.OracleAddress, tr[1], tr[2], tr[3],
                                         vsig.hex)]
    /\ UNCHANGED <<vsig, vrec>>
    /\ UNCHANGED hvars

\* verifier.recoverSigner(ethSignedMessageHash of the triplet, signature bytes)
VRecover(tr) ==
    /\ vsig.method # "none" /\ ~vrec.called
    /\ vsub.called => vsub.triplet = tr
    /\ DecodeString(vsig.hex).err = "nil"
    /\ vrec' = [called |-> TRUE, triplet |-> tr,
                messageHash |-> createMessageHash(tr[1], tr[2], tr[3]),
                res |-> recoverSigner(
                          toEthSignedMessageHash(createMessageHash(tr[1], tr[2], tr[3])),
                          DecodeString(vsig.hex).bytes)]
    /\ UNCHANGED <<vsig, vsub>>
    /\ UNCHANGED hvars

VNext ==
    \/ \E k \in Keys, tr \in VTriplets : VSignEthereumMessage(k, tr)
    \/ \E k \in Keys, tr \in VTriplets : VSignTriplet(k, tr)
    \/ \E k \in Keys, tr \in VTriplets : VSignMessage(k, tr)
    \/ \E kind \in TamperKinds : VTamper(kind)
    \/ \E k \in Keys, tr \in VTriplets : VSubmit(k, tr)
    \/ \E tr \in VTriplets : VRecover(tr)

VSpec == VInit /\ [][VNext]_vars

(***************************************************************************)
(* Concurrent requests: net/http runs the handler of every request in its  *)
(* own goroutine, so the steps of the requests interleave.  One more       *)
(* request slot than in Spec, and fewer kinds of request and of reply.     *)
(***************************************************************************)
CReqs == 1..(NumReqs + 1)

CBodies ==
    { Body(AddrV, AddrN, TextHi), Body(AddrN, AddrV, TextHi),
      Body(AddrV, AddrShort, TextHi), BodyWithout("msg") }

CReplies == {x \in RPCReplies : x.name \in {"era_value", "transport_failure"}}

CInit ==
    /\ VSigInit
    /\ oracle \in {PrivBytes(k) : k \in Keys}
    /\ build \in Builds
    /\ proc = ServingProc(oracle)
    /\ req = [r \in CReqs |-> IdleReq]

CNext ==
    \/ \E r \in CReqs, body \in CBodies : Arrive(r, "POST", body)
    \/ \E r \in CReqs : VerifyHandlerBegin(r)
    \/ \E r \in CReqs, reply \in CReplies : RPCReturn(r, reply)
    \/ \E r \in CReqs : VerifyHandlerReject(r)
    \/ \E r \in CReqs : VerifyHandlerSign(r)

CSpec == CInit /\ [][CNext]_vars

\* the goroutine of a handler that can run does run; nothing makes the
\* endpoint answer (the http.Client of the Verifier has no timeout).  The
\* last conjunct is the weak fairness of VerifyHandlerSign(r), written with
\* its enabling condition, req[r].pc = "Signing".
CFairSpec ==
    /\ CSpec
    /\ \A r \in CReqs :
          /\ WF_vars(VerifyHandlerBegin(r))
          /\ WF_vars(VerifyHandlerReject(r))
          /\ ([]<>(req[r].pc # "Signing") \/ []<><<VerifyHandlerSign(r)>>_vars)

\* CFairSpec with an endpoint that answers every RPC call sooner or later,
\* with a result or an error: the weak fairness of the return of the pending
\* call of each request, written with its enabling condition
CLiveSpec ==
    /\ CFairSpec
    /\ \A r \in CReqs :
          \/ []<>(req[r].vpc \notin {"era1", "era2"})
          \/ []<><<\E reply \in CReplies : RPCReturn(r, reply)>>_vars

(***************************************************************************)
(* Start-up: main builds the oracle from PRIVATE_KEY, registers the routes *)
(* and serves /verify, /info and /health; callers of the package sign with *)
(* the oracle.                                                             *)
(***************************************************************************)
\* the hex of key k, 64 characters
KeyHex(k) == EncodeToString(PrivBytes(k))

\* the values of PRIVATE_KEY the process is started with: unset or empty,
\* a key with and without "0x", "0X" in front of a key, a string that is
\* not hex, hex of odd length, of 31 and of 33 bytes, "0x" alone, the zero
\* key and a key that is not below N
KeyConfigs ==
    {EmptyStr} \cup {KeyHex(k) : k \in Keys} \cup {Prefix0x \o KeyHex(k) : k \in Keys}
    \cup { <<48, 88>> \o KeyHex(1), <<122, 122>>, SubSeq(KeyHex(1), 1, 63),
           SubSeq(KeyHex(1), 3, 64), <<48, 48>> \o KeyHex(1), Prefix0x,
           Repeat(48, 64), Repeat(102, 64) }

SInit ==
    /\ VSigInit
    /\ oracle = NilOracle
    /\ build \in Builds
    /\ proc \in {StartProc(env) : env \in KeyConfigs}
    /\ req = [r \in Reqs |-> IdleReq]

\* main that logs the error of NewSigningOracle and goes on
MainAfterNewSigningOracle_LogOnly(err) == "initialized"

\* main after NewSigningOracle has returned: log.Fatalf on an error
MainAfterNewSigningOracle(err) == IF err # "nil" THEN "exited" ELSE "initialized"

\* main: NewSigningOracle, then the log of the public key and the address
MainNewSigningOracle ==
    /\ proc.pc = "start"
    /\ LET res == NewSigningOracle(proc.env)
           pc == MainAfterNewSigningOracle(res.err)
       IN /\ oracle' = res.oracle
          /\ proc' = [proc EXCEPT
                        !.pc = pc,
                        !.startup = IF pc = "initialized" /\ res.err = "nil"
                                    THEN [priv |-> res.oracle,
                                          public_key |-> GetPublicKeyHex(res.oracle),
                                          address |-> GetAddress(res.oracle)]
                                    ELSE NoIdentity]
    /\ UNCHANGED <<build, req, vvars>>

\* main: the three routes are registered and http.ListenAndServe starts
MainServe ==
    /\ proc.pc = "initialized"
    /\ proc' = [proc EXCEPT !.pc = "serving", !.routes = Routes]
    /\ UNCHANGED <<oracle, build, req, vvars>>

\* GET /info is served
InfoRequest ==
    /\ proc.pc = "serving" /\ "/info" \in proc.routes
    /\ proc' = [proc EXCEPT !.info = @ \cup {InfoHandler(oracle)},
                            !.served = @ \cup {"/info"}]
    /\ UNCHANGED <<oracle, build, req, vvars>>

\* GET /health is served
HealthRequest ==
    /\ proc.pc = "serving" /\ "/health" \in proc.routes
    /\ proc' = [proc EXCEPT !.served = @ \cup {"/health"}]
    /\ UNCHANGED <<oracle, build, req, vvars>>

STriplets == { <<AddrV, AddrN, TextHi>>, <<AddrV, AddrNh, TextI>> }

\* a caller signs with the oracle of the process: SignMessage(text),
\* SignEthereumMessage(validator + nominator + text) or SignTriplet
OracleSign(method, tr) ==
    /\ proc.pc \in {"initialized", "serving"}
    /\ vsig' = [hex |-> CASE method = "SignMessage" -> SignMessage(oracle, tr[3]).sig
                          [] method = "SignEthereumMessage" ->
                               SignEthereumMessage(oracle, Concat(tr)).sig
                          [] method = "SignTriplet" ->
                               EncodeToString(SignTriplet(oracle, tr[1], tr[2], tr[3]).sig),
                key |-> oracle[KeyLen], triplet |-> tr, method |-> method,
                tamper |-> "none"]
    /\ UNCHANGED <<vsub, vrec, hvars>>

SNext ==
    \/ MainNewSigningOracle
    \/ MainServe
    \/ \E r \in Reqs, body \in CBodies : Arrive(r, "POST", body)
    \/ \E r \in Reqs : VerifyHandlerBegin(r)
    \/ \E r \in Reqs, reply \in CReplies : RPCReturn(r, reply)
    \/ \E r \in Reqs : VerifyHandlerReject(r)
    \/ \E r \in Reqs : VerifyHandlerSign(r)
    \/ InfoRequest
    \/ HealthRequest
    \/ \E method \in {"SignMessage", "SignEthereumMessage", "SignTriplet"},
          tr \in STriplets : OracleSign(method, tr)

SSpec == SInit /\ [][SNext]_vars

(***************************************************************************)
(* Properties of the /verify handler and of VerifyDelegation (Spec).       *)
(***************************************************************************)
\* the RPC calls posted so far for a request: the answered ones and the
\* pending one
RPCCalls(q) == Len(q.rpcLog) + (IF q.vpc \in {"era1", "era2"} THEN 1 ELSE 0)

ReplyNamed(n) == CHOOSE x \in RPCReplies : x.name = n

\* the i-th RPC call of the request was answered without error
Answered(q, i) == i <= Len(q.rpcLog) /\ makeRPCCall(ReplyNamed(q.rpcLog[i])).err = Nil

WellFormed(q) == Len(q.nominator) >= MinAddressLen /\ Len(q.validator) >= MinAddressLen

\* the edges of the per-request state machine; a request refused by the
\* method, body or required-field checks is answered from Received
StateMachineEdges ==
    { <<"Idle", "Received">>, <<"Received", "ValidatingDelegation">>,
      <<"ValidatingDelegation", "ValidatingDelegation">>,
      <<"ValidatingDelegation", "Rejected">>, <<"ValidatingDelegation", "Signing">>,
      <<"Rejected", "Responded">>, <<"Signing", "Responded">> }

C2_ResponseSignatureAccepted ==
    \A r \in Reqs :
        (req[r].via = "http" /\ req[r].method = "POST" /\ req[r].resp.status = 200) =>
            SubmitMessage(NewOracleVerifiedDelegation(GetAddress(oracle)).OracleAddress,
                          req[r].resp.validator_address, req[r].resp.nominator_address,
                          req[r].resp.msg, req[r].resp.signature).err = NoError

(***************************************************************************)
(* C7: a POST /verify whose validator_address, nominator_address or msg is *)
(* empty or missing is answered 400; no RPC call is made for it and        *)
(* SignMessage is not invoked.                                             *)
(***************************************************************************)
MissingField(q) ==
    /\ q.via = "http" /\ q.method = "POST" /\ q.body.json
    /\ \E k \in {"validator_address", "nominator_address", "msg"} :
          Field(q.body, k) = EmptyStr

C7_MissingFieldRefused ==
    \A r \in Reqs :
        MissingField(req[r]) =>
            /\ RPCCalls(req[r]) = 0 /\ req[r].vpc = "none"
            /\ req[r].signCalls = 0
            /\ req[r].pc \in {"Received", "Responded"}
            /\ req[r].pc = "Responded" =>
                  /\ req[r].resp.status = 400
                  /\ req[r].resp.signature = <<>>

C7_Witness ==
    \E r \in Reqs :
        /\ MissingField(req[r]) /\ req[r].body = BodyWithout("msg")
        /\ req[r].pc = "Responded" /\ req[r].resp.status = 400
        /\ RPCCalls(req[r]) = 0

C9_FormatCheckBeforeRPC ==
    \A r \in Reqs :
        (req[r].vpc # "none" /\ ~WellFormed(req[r])) =>
            /\ RPCCalls(req[r]) = 0
            /\ req[r].vpc = "done" =>
                  /\ ~req[r].vok /\ req[r].verr # Nil
                  /\ req[r].verr[Len(req[r].verr)] = "invalid address format"

OracleAddressOf(k) == PubkeyToAddress(FromECDSAPub(PrivBytes(k)))

\* the decoded bytes of the signature under test
VSigDecoded == DecodeString(vsig.hex)

\* the SignedMessageHash of a triplet as the verifier computes it
SignedMessageHashOf(tr) == toEthSignedMessageHash(createMessageHash(tr[1], tr[2], tr[3]))

(***************************************************************************)
(* C3 (round trip): a signature made by SignEthereumMessage(validator +    *)
(* nominator + text) is recovered by recoverSigner to the signer's own     *)
(* address, and SubmitMessage for that triplet on a verifier built from    *)
(* the signer's GetAddress() returns no error.                             *)
(***************************************************************************)
C3_RoundTrip ==
    (vsig.method = "SignEthereumMessage" /\ vsig.tamper = "none") =>
        /\ (vsub.called /\ vsub.key = vsig.key /\ vsub.triplet = vsig.triplet)
              => vsub.res.err = NoError
        /\ (vrec.called /\ vrec.triplet = vsig.triplet)
              => /\ vrec.res.err = NoError
                 /\ AddressHex(vrec.res.address) = GetAddress(PrivBytes(vsig.key))

C3_Witness ==
    /\ vsig.method = "SignEthereumMessage" /\ vsig.tamper = "none"
    /\ vsig.triplet = <<AddrV, AddrN, TextHi>>
    /\ vsub.called /\ vsub.key = vsig.key /\ vsub.triplet = vsig.triplet
    /\ vsub.res.err = NoError /\ vsub.res.ecrecover = 1

(***************************************************************************)
(* C4: SubmitMessage returns nil only if the address recovered from the    *)
(* SignedMessageHash of the triplet and the signature is the verifier's    *)
(* OracleAddress; an untouched 65-byte signature of another key is         *)
(* rejected with the signer-mismatch error, which names the expected and   *)
(* the recovered address; a signature with one changed byte is not         *)
(* accepted.                                                               *)
(***************************************************************************)
C4_OnlyOracleAccepted ==
    vsub.called =>
        LET rec == recoverSigner(SignedMessageHashOf(vsub.triplet), VSigDecoded.bytes) IN
        /\ vsub.res.err = NoError =>
              /\ VSigDecoded.err = "nil"
              /\ rec.err = NoError
              /\ rec.address = OracleAddressOf(vsub.key)
        /\ (vsig.tamper = "none" /\ vsig.key # vsub.key) =>
              /\ vsub.res.err.kind = "signature not from oracle"
              /\ vsub.res.err.expected = GetAddress(PrivBytes(vsub.key))
              /\ vsub.res.err.got = AddressHex(rec.address)
              /\ vsub.res.err.got # vsub.res.err.expected
        /\ vsig.tamper \in {"flipR", "flipS"} => vsub.res.err # NoError

C4_Witness ==
    /\ vsub.called /\ vsig.tamper = "none" /\ vsig.key # vsub.key
    /\ vsig.method = "SignTriplet" /\ vsub.triplet = vsig.triplet
    /\ vsub.res.err.kind = "signature not from oracle"
    /\ vsub.res.err.got = GetAddress(PrivBytes(vsig.key))

(***************************************************************************)
(* C5: a decoded signature whose length is not 65 bytes is rejected with   *)
(* the length error by SubmitMessage and by recoverSigner, and             *)
(* crypto.Ecrecover is not called.                                         *)
(***************************************************************************)
C5_LengthRejected ==
    (VSigDecoded.err = "nil" /\ Len(VSigDecoded.bytes) # SigLen) =>
        /\ vsub.called => /\ vsub.res.err.kind = "invalid signature length"
                          /\ vsub.res.ecrecover = 0
        /\ vrec.called => /\ vrec.res.err.kind = "invalid signature length"
                          /\ vrec.res.ecrecover = 0

C5_Witness ==
    /\ vrec.called /\ vsig.tamper = "addbyte" /\ Len(VSigDecoded.bytes) = SigLen + 1
    /\ vrec.res.err.kind = "invalid signature length" /\ vrec.res.ecrecover = 0

(***************************************************************************)
(* C6: a signatureHex of odd length or with a character that is no hex     *)
(* digit fails SubmitMessage with the hex-decode error, whatever its       *)
(* length, and nothing after the decoding is done.                         *)
(***************************************************************************)
NotHex(s) == Len(s) % 2 = 1 \/ \E i \in 1..Len(s) : FromHexChar(s[i]) > 15

C6_DecodeErrorFirst ==
    (vsub.called /\ NotHex(vsig.hex)) =>
        /\ vsub.res.err.kind = "invalid signature hex"
        /\ vsub.res.ecrecover = 0
        /\ ~vsub.res.compared

C6_Witness ==
    /\ vsub.called /\ vsig.tamper = "nonhexshort" /\ NotHex(vsig.hex)
    /\ Len(vsig.hex) = 2 * (SigLen - 1)
    /\ vsub.res.err.kind = "invalid signature hex"
(***************************************************************************)
(* Further properties of VerifyDelegation and of the handler (Spec).       *)
(***************************************************************************)
\* some RPC call of the request failed, that is makeRPCCall returned an error
RPCFailed(q) ==
    \E i \in 1..Len(q.rpcLog) : makeRPCCall(ReplyNamed(q.rpcLog[i])).err # Nil

EndpointFailure(reply) ==
    \/ reply.transport # "ok"
    \/ reply.status \notin 200..299
    \/ ~reply.envelope
    \/ reply.error

(***************************************************************************)
(* C12: makeRPCCall returns a non-nil error and a nil result for a         *)
(* transport failure, a non-2xx status, a body that is no JSON-RPC         *)
(* envelope and a response with an error field, and a nil error only for   *)
(* a 2xx response with a valid envelope and no error field.                *)
(***************************************************************************)
C12_MakeRPCCallFailureKinds ==
    \A r \in Reqs : \A i \in 1..Len(req[r].rpcLog) :
        LET reply == ReplyNamed(req[r].rpcLog[i])
            res == makeRPCCall(reply)
        IN /\ EndpointFailure(reply) => (res.err # Nil /\ res.result = "nil")
           /\ res.err = Nil => ~EndpointFailure(reply)

\* every character of s is a hex digit
IsHexString(s) == \A i \in 1..Len(s) : FromHexChar(s[i]) <= 15

(***************************************************************************)
(* C13: every 200 response of POST /verify echoes validator_address,       *)
(* nominator_address and msg of the request unchanged and carries the      *)
(* signature as a hex string with a leading "0x".                          *)
(***************************************************************************)
C13_ResponseEchoesWith0x ==
    \A r \in Reqs :
        (req[r].via = "http" /\ req[r].method = "POST" /\ req[r].resp.status = 200) =>
            LET d == DecodeRequest(req[r].body) IN
            /\ req[r].resp.validator_address = d.ValidatorAddress
            /\ req[r].resp.nominator_address = d.NominatorAddress
            /\ req[r].resp.msg = d.Msg
            /\ HasPrefix(req[r].resp.signature, Prefix0x)
            /\ IsHexString(TrimPrefix(req[r].resp.signature, Prefix0x))
            /\ Len(req[r].resp.signature) = 2 + 2 * SigLen
(***************************************************************************)
(* Properties of concurrent requests (CSpec).                              *)
(***************************************************************************)
\* the request was accepted: SignMessage ran and the response is a 200
Accepted(q) == q.via = "http" /\ q.pc = "Responded" /\ q.signCalls = 1 /\ q.resp.status = 200

\* the hex of the signature in a response, without the "0x" of the build
\* that writes one
ResponseSignatureHex(q) == TrimPrefix(q.resp.signature, Prefix0x)

(***************************************************************************)
(* C14: the hash signed by /verify is Keccak256 of msg alone: it is        *)
(* neither the hash of the triplet nor an EIP-191 hash, and two accepted   *)
(* requests with the same msg and different validator_address or           *)
(* nominator_address are signed over the same hash (and, the key being     *)
(* fixed, get the same signature).                                         *)
(***************************************************************************)
C14_SignsHashOfMsgAlone ==
    \A r1 \in DOMAIN req :
        Accepted(req[r1]) =>
            LET d1 == DecodeRequest(req[r1].body) IN
            /\ req[r1].signedHash = Keccak256(d1.Msg)
            /\ req[r1].signedHash #
                  createMessageHash(d1.ValidatorAddress, d1.NominatorAddress, d1.Msg)
            /\ req[r1].signedHash # toEthSignedMessageHash(Keccak256(d1.Msg))
            /\ req[r1].signedHash # toEthSignedMessageHash(
                  createMessageHash(d1.ValidatorAddress, d1.NominatorAddress, d1.Msg))
            /\ ResponseSignatureHex(req[r1]) =
                  EncodeToString(Sign(Keccak256(d1.Msg), oracle).sig)
            /\ \A r2 \in DOMAIN req :
                  (Accepted(req[r2]) /\ DecodeRequest(req[r2].body).Msg = d1.Msg) =>
                      /\ req[r2].signedHash = req[r1].signedHash
                      /\ ResponseSignatureHex(req[r2]) = ResponseSignatureHex(req[r1])

C14_Witness ==
    \E r1, r2 \in DOMAIN req :
        /\ r1 # r2 /\ Accepted(req[r1]) /\ Accepted(req[r2])
        /\ req[r1].body = Body(AddrV, AddrN, TextHi)
        /\ req[r2].body = Body(AddrN, AddrV, TextHi)
        /\ req[r1].signedHash = req[r2].signedHash
        /\ req[r1].resp.signature = req[r2].resp.signature
(***************************************************************************)
(* Properties of the start-up and of the oracle identity (SSpec).          *)
(***************************************************************************)
\* the value of PRIVATE_KEY is a key: after an optional "0x", 64 hex
\* characters of a number that is not zero and is below N
ValidKeyConfig(env) ==
    LET h == IF HasPrefix(env, Prefix0x) THEN SubSeq(env, 3, Len(env)) ELSE env IN
    /\ Len(h) = 2 * KeyLen
    /\ IsHexString(h)
    /\ DecodeString(h).bytes # Repeat(0, KeyLen)
    /\ Less(DecodeString(h).bytes, Secp256k1N)

(***************************************************************************)
(* C15: NewSigningOracle fails fast: when PRIVATE_KEY is unset or empty,   *)
(* is not valid hex or does not decode to a valid 32-byte key, it returns  *)
(* an error and a nil oracle, main exits before a route is registered,     *)
(* and no request is ever served without a loaded key.                     *)
(***************************************************************************)
C15_FailFast ==
    /\ ~ValidKeyConfig(proc.env) =>
          /\ NewSigningOracle(proc.env).err # "nil"
          /\ NewSigningOracle(proc.env).oracle = NilOracle
          /\ proc.pc \in {"start", "exited"}
          /\ oracle = NilOracle /\ proc.routes = {}
    /\ (proc.routes # {} \/ proc.served # {} \/ \E r \in Reqs : req[r].pc # "Idle") =>
          /\ proc.pc = "serving" /\ ValidKeyConfig(proc.env)
          /\ Len(oracle) = KeyLen /\ oracle = NewSigningOracle(proc.env).oracle

C15_Witness ==
    /\ proc.pc = "exited" /\ proc.env = SubSeq(KeyHex(1), 3, 64)
    /\ oracle = NilOracle /\ proc.routes = {}

\* the other spelling of a PRIVATE_KEY value: with the "0x" when it has
\* none, without it when it has one
OtherSpelling(env) ==
    IF HasPrefix(env, Prefix0x) THEN SubSeq(env, 3, Len(env)) ELSE Prefix0x \o env

(***************************************************************************)
(* C16: the "0x" in front of the PRIVATE_KEY value is optional: for a      *)
(* valid key, NewSigningOracle on the value with and without the "0x"      *)
(* gives oracles with the same private key, public key and address.        *)
(***************************************************************************)
C16_PrefixOptional ==
    (proc.pc # "start" /\ ValidKeyConfig(proc.env)) =>
        LET other == NewSigningOracle(OtherSpelling(proc.env)) IN
        /\ proc.pc # "exited" /\ oracle # NilOracle
        /\ other.err = "nil"
        /\ other.oracle = oracle
        /\ GetPrivateKeyHex(other.oracle) = GetPrivateKeyHex(proc.startup.priv)
        /\ GetPublicKeyHex(other.oracle) = proc.startup.public_key
        /\ GetAddress(other.oracle) = proc.startup.address

C16_Witness ==
    /\ proc.pc = "serving" /\ proc.env = Prefix0x \o KeyHex(2)
    /\ oracle = PrivBytes(2)
    /\ NewSigningOracle(KeyHex(2)).oracle = oracle

(***************************************************************************)
(* C17: the identity of the oracle does not change after construction:     *)
(* whatever /verify, /info and /health requests are served and whatever    *)
(* SignMessage, SignEthereumMessage and SignTriplet calls are made, the    *)
(* private key, GetPublicKeyHex() and GetAddress() keep their start-up     *)
(* values, and every /info response carries the same address (0x and 40    *)
(* hex characters) and the same public key of fixed length.                *)
(***************************************************************************)
C17_IdentityImmutable ==
    /\ [](proc.pc \in {"initialized", "serving"} =>
            /\ oracle = proc.startup.priv
            /\ GetPublicKeyHex(oracle) = proc.startup.public_key
            /\ GetAddress(oracle) = proc.startup.address
            /\ \A i \in proc.info :
                  /\ i.status = 200
                  /\ i.address = proc.startup.address
                  /\ HasPrefix(i.address, Prefix0x)
                  /\ Len(i.address) = 2 + 2 * AddressLen
                  /\ IsHexString(SubSeq(i.address, 3, Len(i.address)))
                  /\ i.public_key = proc.startup.public_key
                  /\ Len(i.public_key) = 2 * (1 + 2 * KeyLen))
    /\ [][proc.pc # "start" =>
            /\ oracle' = oracle
            /\ proc'.startup = proc.startup
            /\ proc'.env = proc.env]_vars

C17_Witness ==
    /\ proc.pc = "serving" /\ proc.info # {} /\ "/health" \in proc.served
    /\ vsig.method = "SignTriplet"
    /\ \E r \in Reqs : Accepted(req[r])
    /\ oracle = proc.startup.priv
(***************************************************************************)
(* Properties of requests handled at the same time (CSpec).                *)
(***************************************************************************)
\* the response and the signed hash of a request handled alone: the
\* handler run from its first line to its last with the given replies of
\* the endpoint
AloneOutcome(bld, priv, method, body, replies) ==
    LET c == VerifyHandlerChecks(method, body)
        d == DecodeRequest(body)
    IN IF ~c.verify THEN [resp |-> c.resp, signedHash |-> <<>>]
       ELSE LET e == VerifyDelegationEra(d.NominatorAddress, d.ValidatorAddress,
                                         ReplyNamed(replies[1]))
                v == IF e.done THEN e ELSE VerifyDelegationActive(ReplyNamed(replies[2]))
                b == VerifyHandlerBranch(v.ok, v.err)
            IN IF b.pc = "Rejected" THEN [resp |-> b.resp, signedHash |-> <<>>]
               ELSE [resp |-> IF bld = "signingoracle" THEN VerifyHandlerSigned(priv, d)
                              ELSE SigningOracle_VerifyHandlerSigned(priv, d),
                     signedHash |-> SignMessageHash(d.Msg)]

(***************************************************************************)
(* C18: requests handled at the same time are independent: under every     *)
(* interleaving each response (status, error code, signed hash) is the one *)
(* the request would get alone with the same RPC outcomes, a step of one   *)
(* request changes nothing of another request nor the oracle, and a        *)
(* request waiting for its RPC call, even for ever, does not keep another  *)
(* request from going on: a handler that is not waiting for the endpoint   *)
(* always gets to its next RPC call or to its response.                    *)
(***************************************************************************)
C18_RequestsIndependent ==
    /\ [][\A r \in DOMAIN req :
        /\ req'[r].pc = "Responded" =>
              LET alone == AloneOutcome(build', oracle', req'[r].method, req'[r].body,
                                        req'[r].rpcLog)
              IN /\ req'[r].resp = alone.resp
                 /\ req'[r].signedHash = alone.signedHash
        /\ req'[r] # req[r] =>
              /\ \A o \in DOMAIN req \ {r} : req'[o] = req[o]
              /\ oracle' = oracle /\ build' = build /\ proc' = proc
      ]_vars
    /\ \A r \in CReqs :
          (req[r].pc \in {"Received", "Rejected", "Signing"})
              ~> (req[r].pc \in {"ValidatingDelegation", "Responded"})

C18_Witness ==
    \E r1, r2 \in DOMAIN req :
        /\ r1 # r2
        /\ req[r1].pc = "ValidatingDelegation" /\ req[r1].vpc = "era2"
        /\ req[r1].body = Body(AddrV, AddrN, TextHi)
        /\ Accepted(req[r2]) /\ req[r2].body = Body(AddrN, AddrV, TextHi)
        /\ req[r2].rpcLog = <<"era_value", "era_value">>

C22_OptionsPreflight ==
    [][\A r \in Reqs :
        (req'[r].via = "http" /\ req'[r].method = "OPTIONS") =>
            /\ req'[r].pc \in {"Received", "Responded"}
            /\ req'[r].vpc = "none" /\ req'[r].rpcLog = <<>>
            /\ req'[r].signCalls = 0 /\ req'[r].signedHash = <<>>
            /\ req'[r].nominator = <<>> /\ req'[r].validator = <<>>
            /\ req'[r].pc = "Responded" =>
                  /\ req'[r].resp = TextResp(200, "")
                  /\ req'[r].resp.status = 200 /\ req'[r].resp.allowOrigin = "*"
                  /\ req'[r].resp.signature = <<>>
            /\ (req[r].pc = "Received" /\ req'[r].pc = "Responded") =>
                  /\ req' = [req EXCEPT ![r] = [@ EXCEPT !.pc = "Responded",
                                                         !.resp = TextResp(200, "")]]
                  /\ UNCHANGED <<oracle, build, proc, vvars>>
      ]_vars

C22_Witness ==
    \E r \in Reqs :
        /\ req[r].via = "http" /\ req[r].method = "OPTIONS" /\ req[r].body = BadJSON
        /\ req[r].pc = "Responded" /\ req[r].resp.status = 200
        /\ req[r].resp.allowOrigin = "*" /\ req[r].rpcLog = <<>> /\ req[r].signCalls = 0
(***************************************************************************)
(* Further properties of the verifier (VSpec).                             *)
(***************************************************************************)
\* crypto.Ecrecover fails on the 65 decoded bytes of the signature under
\* test, for the SignedMessageHash of the submitted triplet
RecoveryFails(tr) ==
    /\ VSigDecoded.err = "nil" /\ Len(VSigDecoded.bytes) = SigLen
    /\ Ecrecover(SignedMessageHashOf(tr), VSigDecoded.bytes).err # "nil"

(***************************************************************************)
(* C23: a failure of the curve recovery on a 65-byte signature is reported *)
(* by SubmitMessage as the failed-to-recover error, never as the           *)
(* signer-mismatch error, and the comparison with OracleAddress is not     *)
(* made; the signer-mismatch error is returned only after a recovery that  *)
(* succeeded.                                                              *)
(***************************************************************************)
C23_RecoveryFailureDistinct ==
    vsub.called =>
        /\ RecoveryFails(vsub.triplet) =>
              /\ vsub.res.err.kind = "failed to recover signer"
              /\ vsub.res.err.kind # "signature not from oracle"
              /\ vsub.res.ecrecover = 1
              /\ ~vsub.res.compared
        /\ vsub.res.err.kind = "signature not from oracle" =>
              /\ ~RecoveryFails(vsub.triplet)
              /\ vsub.res.compared

C23_Witness ==
    /\ vsub.called /\ vsig.tamper = "zeroR" /\ RecoveryFails(vsub.triplet)
    /\ vsub.key = vsig.key /\ vsub.triplet = vsig.triplet
    /\ vsub.res.err.kind = "failed to recover signer" /\ ~vsub.res.compared

(***************************************************************************)
(* C24: when the endpoint answers every RPC call sooner or later, every    *)
(* request received at /verify gets to Responded, and it gets one          *)
(* response: there is none before Responded and a request that has         *)
(* responded does not change any more.  The handler has no timeout: a      *)
(* request leaves ValidatingDelegation only by the return of its pending   *)
(* RPC call, so a request whose call never returns stays there.            *)
(***************************************************************************)
C24_RespondsIfRPCReturns ==
    /\ \A r \in CReqs : (req[r].pc = "Received") ~> (req[r].pc = "Responded")
    /\ [][\A r \in DOMAIN req :
            /\ req[r].pc = "Responded" => req'[r] = req[r]
            /\ req'[r].pc # "Responded" => req'[r].resp = NoResp
            /\ req'[r].pc = "Responded" => req'[r].resp # NoResp
            /\ (req[r].pc = "ValidatingDelegation" /\ req'[r] # req[r]) =>
                  /\ req[r].vpc \in {"era1", "era2"}
                  /\ Len(req'[r].rpcLog) = Len(req[r].rpcLog) + 1
      ]_vars

C24_Witness ==
    \E r1, r2 \in DOMAIN req :
        /\ req[r1].pc = "Responded" /\ req[r1].resp.status = 200
        /\ req[r1].rpcLog = <<"era_value", "era_value">>
        /\ req[r2].pc = "Responded" /\ req[r2].resp.status = 500
        /\ req[r2].rpcLog = <<"era_value", "transport_failure">>

\* the era values that the RPC calls of the request returned without error
EraValues(q) == { makeRPCCall(ReplyNamed(q.rpcLog[i])).result : i \in 1..Len(q.rpcLog) }

(***************************************************************************)
(* C25: the active era is fetched and not used: when every era RPC call of *)
(* a VerifyDelegation call has returned without error, the boolean         *)
(* returned is decided by the two addresses alone (true when both have 10  *)
(* bytes or more), whatever era values came back, a null result included,  *)
(* and two era calls were made when it is true.                            *)
(***************************************************************************)
C25_EraIsProbe ==
    \A r \in Reqs :
        (req[r].vpc = "done" /\ ~RPCFailed(req[r])) =>
            /\ req[r].vok = WellFormed(req[r])
            /\ req[r].vok => (req[r].verr = Nil /\ Len(req[r].rpcLog) = 2)
            /\ EraValues(req[r]) \subseteq {"null", "0x6c070000"}

C25_Witness ==
    \E r \in Reqs :
        /\ req[r].vpc = "done" /\ req[r].vok /\ req[r].verr = Nil
        /\ req[r].rpcLog = <<"era_null", "era_value">>
        /\ EraValues(req[r]) = {"null", "0x6c070000"}

SubmitMessageFor(tr) ==
    SubmitMessage(NewOracleVerifiedDelegation(GetAddress(PrivBytes(vsub.key))).OracleAddress,
                  tr[1], tr[2], tr[3], vsig.hex)

(***************************************************************************)
(* C27: the triplet is hashed as validator + nominator + text with nothing *)
(* between the parts, so two triplets with the same concatenation have the *)
(* same MessageHash, and SubmitMessage gives for one split the result it   *)
(* gives for the other: a signature of the oracle made for one split is    *)
(* accepted when it is submitted with another split.                       *)
(***************************************************************************)
C27_SplitsShareHash ==
    vsub.called =>
        /\ \A tr \in VTriplets :
              Concat(tr) = Concat(vsub.triplet) =>
                  /\ createMessageHash(tr[1], tr[2], tr[3]) = vsub.messageHash
                  /\ SubmitMessageFor(tr) = vsub.res
        /\ (/\ vsig.method \in {"SignEthereumMessage", "SignTriplet"}
             /\ vsig.tamper = "none" /\ vsub.key = vsig.key
             /\ Concat(vsub.triplet) = Concat(vsig.triplet)) =>
              vsub.res.err = NoError

C27_Witness ==
    /\ vsub.called /\ vsig.tamper = "none" /\ vsub.key = vsig.key
    /\ vsig.method = "SignTriplet"
    /\ vsig.triplet = <<AddrV, AddrN, TextHi>> /\ vsub.triplet = <<AddrV, AddrNh, TextI>>
    /\ vsub.res.err = NoError

\* SubmitMessage on a verifier built from the oracle's GetAddress(), called
\* with the fields of the response of the request as they were returned
SubmitResponse(q) ==
    SubmitMessage(NewOracleVerifiedDelegation(GetAddress(oracle)).OracleAddress,
                  q.resp.validator_address, q.resp.nominator_address, q.resp.msg,
                  q.resp.signature)

(***************************************************************************)
(* C28: SubmitMessage takes bare hex only: a signatureHex that begins with *)
(* "0x" fails with the hex-decode error before anything else is looked at, *)
(* and the signature of every 200 response of /verify is such a string, so *)
(* it cannot be handed to SubmitMessage as it was returned.                *)
(***************************************************************************)
C28_ResponseNeedsStripping ==
    \A r \in Reqs :
        Accepted(req[r]) =>
            /\ HasPrefix(req[r].resp.signature, Prefix0x)
            /\ SubmitResponse(req[r]).err.kind = "invalid signature hex"
            /\ SubmitResponse(req[r]).ecrecover = 0

(***************************************************************************)
(* C29: for every triplet, SignTriplet(validator, nominator, text) and     *)
(* SignEthereumMessage(validator + nominator + text) sign one digest, the  *)
(* toEthSignedMessageHash(createMessageHash(validator, nominator, text))   *)
(* of the verifier; the signature of either method is the signature of     *)
(* that digest by the oracle key, and SubmitMessage for the triplet on a   *)
(* verifier of the oracle's address accepts it.                            *)
(***************************************************************************)
C29_SignTripletMatchesVerifier ==
    (vsig.method \in {"SignTriplet", "SignEthereumMessage"} /\ vsig.tamper = "none") =>
        LET tr == vsig.triplet IN
        /\ SignTripletHash(tr[1], tr[2], tr[3]) = SignEthereumMessageHash(Concat(tr))
        /\ SignTripletHash(tr[1], tr[2], tr[3]) = SignedMessageHashOf(tr)
        /\ VSigDecoded.err = "nil"
        /\ VSigDecoded.bytes = Sign(SignedMessageHashOf(tr), PrivBytes(vsig.key)).sig
        /\ vsig.hex = SignEthereumMessage(PrivBytes(vsig.key), Concat(tr)).sig
        /\ VSigDecoded.bytes = SignTriplet(PrivBytes(vsig.key), tr[1], tr[2], tr[3]).sig
        /\ (vsub.called /\ vsub.key = vsig.key /\ vsub.triplet = tr) =>
              /\ vsub.res.err = NoError
              /\ vsub.messageHash = createMessageHash(tr[1], tr[2], tr[3])

C29_Witness ==
    /\ vsig.method = "SignTriplet" /\ vsig.tamper = "none"
    /\ vsig.triplet = <<AddrN, AddrV, TextHi>>
    /\ vsub.called /\ vsub.key = vsig.key /\ vsub.triplet = vsig.triplet
    /\ vsub.res.err = NoError /\ vsub.res.compared

(***************************************************************************)
(* C30: a signature covers one message: a signature that the oracle key    *)
(* made over the SignedMessageHash of a triplet is refused by              *)
(* SubmitMessage for every triplet with another concatenation validator +  *)
(* nominator + text, on the verifier of the signer's address as on any     *)
(* other, with the signer-mismatch error or the recovery error.            *)
(***************************************************************************)
C30_BoundToMessage ==
    (/\ vsig.method \in {"SignTriplet", "SignEthereumMessage"} /\ vsig.tamper = "none"
     /\ vsub.called /\ Concat(vsub.triplet) # Concat(vsig.triplet)) =>
        /\ vsub.res.err # NoError
        /\ vsub.res.err.kind \in {"signature not from oracle", "failed to recover signer"}
        /\ vsub.res.ecrecover = 1
        /\ vsub.messageHash # createMessageHash(vsig.triplet[1], vsig.triplet[2],
                                                vsig.triplet[3])

C30_Witness ==
    /\ vsig.method = "SignEthereumMessage" /\ vsig.tamper = "none"
    /\ vsig.triplet = <<EmptyStr, EmptyStr, EmptyStr>>
    /\ vsub.called /\ vsub.key = vsig.key /\ vsub.triplet = <<AddrV, AddrN, EmptyStr>>
    /\ vsub.res.err.kind = "signature not from oracle" /\ vsub.res.compared
====
